---- MODULE Spec2Model ----
(***************************************************************************)
(* Model of netlify/functions/recordings.js: the Netlify function that     *)
(* lists the Zoom cloud recordings of one meeting id.                      *)
(*                                                                         *)
(* The file holds two handlers: the plain one (lines 3-145) and the richer *)
(* one (lines 147-383), which filters, sorts and relabels the files.  The  *)
(* variable `variant` says which one an invocation runs; apart from the    *)
(* file processing the two are the same code.                              *)
(*                                                                         *)
(* One invocation is a sequence of steps separated by the handler's await  *)
(* points: fetch(token), tokenRes.text() / tokenRes.json(), fetch(list),   *)
(* recRes.text() / recRes.json().  Everything after the last await is      *)
(* synchronous and is part of the step that resumes from it.               *)
(*                                                                         *)
(* JavaScript values are modelled as records of one shape per kind:        *)
(*   - a string is a sequence of one-character strings (MEETING_ID), or a  *)
(*     TLA+ string where only its identity matters (file types, URLs);     *)
(*   - an environment variable is [present, value];                        *)
(*   - a JSON scalar used as an id is [t, n, s]: a number ("num", n), a    *)
(*     string ("str", s) or NaN ("nan");                                   *)
(*   - a JSON object that may be null carries the flag nul.                *)
(* Timestamps and topics are not modelled: formatDate returns a string for *)
(* every JSON value and never throws.                                      *)
(***************************************************************************)
EXTENDS Integers, Sequences, FiniteSets

VARIABLES
    variant,     \* "simple" (lines 3-145) or "rich" (lines 147-383)
    env,         \* process.env: the four required variables
    pc,          \* position of the invocation
    tokenCalls,  \* number of fetch calls issued to the token endpoint
    recCalls,    \* number of fetch calls issued to the recordings endpoint
    tokenRes,    \* outcome of the token fetch: "none", "reject", "notok", "ok"
    tokenData,   \* outcome of tokenRes.json(): "none", "null", "object"
    recRes,      \* outcome of the recordings fetch
    recData,     \* the value recRes.json() resolved to
    thrown,      \* the place where an error was thrown, "none" if none
    response     \* the value the handler returned

vars == <<variant, env, pc, tokenCalls, recCalls, tokenRes, tokenData,
          recRes, recData, thrown, response>>

(***************************************************************************)
(* Bounds of the model.                                                    *)
(***************************************************************************)
\* longest MEETING_ID string
MaxIdLen == 2
\* longest meetings array in a recordings response (control-flow model)
MaxMeetings == 2
\* longest recording_files array (file-processing model)
MaxFiles == 4

SeqsUpTo(S, n) == UNION {[1..k -> S] : k \in 0..n}

(***************************************************************************)
(* Strings and numbers.                                                    *)
(***************************************************************************)
Digits == {"0", "1", "2", "3", "4", "5", "6", "7", "8", "9"}

DigitVal(c) ==
    CASE c = "0" -> 0 [] c = "1" -> 1 [] c = "2" -> 2 [] c = "3" -> 3
      [] c = "4" -> 4 [] c = "5" -> 5 [] c = "6" -> 6 [] c = "7" -> 7
      [] c = "8" -> 8 [] c = "9" -> 9

Num(n) == [t |-> "num", n |-> n, s |-> <<>>]
Str(s) == [t |-> "str", n |-> 0, s |-> s]
NaN == [t |-> "nan", n |-> 0, s |-> <<>>]

RECURSIVE TrimStart(_)
TrimStart(s) ==
    IF s # <<>> /\ Head(s) = " " THEN TrimStart(Tail(s)) ELSE s

RECURSIVE TrimEnd(_)
TrimEnd(s) ==
    IF s # <<>> /\ s[Len(s)] = " " THEN TrimEnd(SubSeq(s, 1, Len(s) - 1)) ELSE s

RECURSIVE DecimalValue(_)
DecimalValue(s) ==
    IF s = <<>> THEN 0
    ELSE 10 * DecimalValue(SubSeq(s, 1, Len(s) - 1)) + DigitVal(s[Len(s)])

\* Number(string), for strings of blanks, decimal digits and letters: blanks
\* around the text are dropped, nothing is 0, digits are their decimal value
\* and everything else is NaN.
ToNumber(s) ==
    LET t == TrimEnd(TrimStart(s))
    IN  IF t = <<>> THEN Num(0)
        ELSE IF \A i \in 1..Len(t) : t[i] \in Digits THEN Num(DecimalValue(t))
        ELSE NaN

\* a == b: a string is converted to a number before the comparison
StrictEquals_Loose(a, b) ==
    \/ a.t = "num" /\ b.t = "num" /\ a.n = b.n
    \/ a.t = "str" /\ b.t = "str" /\ a.s = b.s
    \/ a.t = "str" /\ b.t = "num" /\ ToNumber(a.s) = b
    \/ a.t = "num" /\ b.t = "str" /\ ToNumber(b.s) = a

\* a === b on ids: same type and same value, and NaN equals nothing.
StrictEquals(a, b) ==
    \/ a.t = "num" /\ b.t = "num" /\ a.n = b.n
    \/ a.t = "str" /\ b.t = "str" /\ a.s = b.s

(***************************************************************************)
(* The inputs.                                                             *)
(***************************************************************************)
IdChars == {"2", " ", "x"}
IdStrings == SeqsUpTo(IdChars, MaxIdLen)

Absent == [present |-> FALSE, value |-> <<>>]
Present(s) == [present |-> TRUE, value |-> s]

ZoomValues == {Absent, Present(<<>>), Present(<<"x">>)}
MeetingIdValues == {Absent} \cup {Present(s) : s \in IdStrings}

FileTypes == {"MP4", "M4A", "CHAT", "SUMMARY", "TIMELINE"}
\* "" is a play_url that is missing or empty
Urls == {"", "u1", "u2"}

File(type, url) == [nul |-> FALSE, file_type |-> type, play_url |-> url]
NullFile == [nul |-> TRUE, file_type |-> "", play_url |-> ""]
Files == {File(t, u) : t \in FileTypes, u \in Urls}

\* recording_files: the field may be absent
NoFiles == [present |-> FALSE, items |-> <<>>]
FileList(items) == [present |-> TRUE, items |-> items]

Meeting(id, files) == [nul |-> FALSE, id |-> id, recording_files |-> files]
NullMeeting == [nul |-> TRUE, id |-> NaN, recording_files |-> NoFiles]

\* JSON.parse result of the recordings body
NullRecData == [nul |-> TRUE, hasMeetings |-> FALSE, meetings |-> <<>>]
RecData(meetings) == [nul |-> FALSE, hasMeetings |-> TRUE, meetings |-> meetings]
RecDataNoMeetings == [nul |-> FALSE, hasMeetings |-> FALSE, meetings |-> <<>>]
NoRecData == NullRecData

\* the files of the spec's example, and a list holding a null
SampleFiles ==
    { NoFiles,
      FileList(<<File("CHAT", ""), File("M4A", "u1"),
                 File("SUMMARY", "u2"), File("MP4", "u2")>>),
      FileList(<<File("MP4", "u1"), NullFile>>) }

ResponseIds == {Num(0), Num(2), Num(22), Str(<<"2">>)}

FlowMeetings ==
    {NullMeeting} \cup {Meeting(i, f) : i \in ResponseIds, f \in SampleFiles}

FlowRecDatas ==
    {NullRecData, RecDataNoMeetings}
        \cup {RecData(ms) : ms \in SeqsUpTo(FlowMeetings, MaxMeetings)}

\* one matched meeting with every list of files, beside one that does not match
FileRecDatas ==
    {RecData(<<Meeting(Num(22), NoFiles), Meeting(Num(2), FileList(fs))>>) :
        fs \in SeqsUpTo(Files, MaxFiles)}

(***************************************************************************)
(* The responses.                                                          *)
(***************************************************************************)
NoPage == [subtitle |-> <<>>, noRecordings |-> FALSE, blocks |-> <<>>]

TextResponse(code, text) ==
    [statusCode |-> code, contentType |-> "", text |-> text, page |-> NoPage]

HtmlResponse(page) ==
    [statusCode |-> 200, contentType |-> "text/html; charset=utf-8",
     text |-> "", page |-> page]

NoResponse == TextResponse(0, "")

MissingEnvResponse ==
    TextResponse(500, "Missing env vars. Set ZOOM_ACCOUNT_ID, ZOOM_CLIENT_ID, ZOOM_CLIENT_SECRET, MEETING_ID in Netlify.")

TokenFailureResponse == TextResponse(500, "Failed to get Zoom token.")

RecordingsFailureResponse ==
    TextResponse(500, "Failed to fetch recordings from Zoom.")

UnexpectedErrorResponse ==
    TextResponse(500, "Unexpected error loading recordings.")

(***************************************************************************)
(* File processing and rendering.                                          *)
(***************************************************************************)
\* meeting.recording_files || []
FilesOf(meeting) ==
    IF meeting.recording_files.present THEN meeting.recording_files.items ELSE <<>>

\* reading a field of a null file throws a TypeError
HasNullFile(items) == \E i \in 1..Len(items) : items[i].nul

\* file.file_type !== "SUMMARY" && file.file_type !== "CHAT"
KeepFile(file) == file.file_type # "SUMMARY" /\ file.file_type # "CHAT"

\* order[file.file_type] || 99, with order = { MP4: 1, M4A: 2 }
Rank(file) ==
    CASE file.file_type = "MP4" -> 1
      [] file.file_type = "M4A" -> 2
      [] OTHER -> 99

\* the comparator with its operands exchanged
Compare_Descending(a, b) == Rank(b) - Rank(a)

\* the comparator of files.sort
Compare(a, b) == Rank(a) - Rank(b)

\* Array.prototype.sort is stable: an element goes before the first element
\* of the sorted prefix that the comparator puts strictly after it.
RECURSIVE InsertSorted(_, _)
InsertSorted(x, sorted) ==
    IF sorted = <<>> THEN <<x>>
    ELSE IF Compare(x, Head(sorted)) < 0 THEN <<x>> \o sorted
    ELSE <<Head(sorted)>> \o InsertSorted(x, Tail(sorted))

RECURSIVE SortFiles(_)
SortFiles(items) ==
    IF items = <<>> THEN <<>>
    ELSE InsertSorted(items[Len(items)], SortFiles(SubSeq(items, 1, Len(items) - 1)))

\* the label of the richer variant
Label(file) ==
    CASE file.file_type = "MP4" -> "VIDEO"
      [] file.file_type = "M4A" -> "AUDIO"
      [] OTHER -> file.file_type

\* the type shown by the plain variant: file.file_type || "Recording"
TypeOf(file) == IF file.file_type = "" THEN "Recording" ELSE file.file_type

\* the test of the playable URL left out
HasPlayUrl_Always(file) == TRUE

\* if (file.play_url)
HasPlayUrl(file) == file.play_url # ""

Entry(href, label) == [href |-> href, label |-> label]

RECURSIVE RichEntries(_)
RichEntries(items) ==
    IF items = <<>> THEN <<>>
    ELSE (IF HasPlayUrl(Head(items))
            THEN <<Entry(Head(items).play_url, Label(Head(items)))>>
            ELSE <<>>) \o RichEntries(Tail(items))

RECURSIVE SimpleEntries(_)
SimpleEntries(items) ==
    IF items = <<>> THEN <<>>
    ELSE (IF HasPlayUrl(Head(items))
            THEN <<Entry(Head(items).play_url, TypeOf(Head(items)))>>
            ELSE <<>>) \o SimpleEntries(Tail(items))

\* the entries of one meeting block
FileEntries(v, meeting) ==
    IF v = "rich"
    THEN RichEntries(SortFiles(SelectSeq(FilesOf(meeting), KeepFile)))
    ELSE SimpleEntries(FilesOf(meeting))

\* one <div class="meeting">; the block remembers the meeting it shows
Block(v, meeting) == [meeting |-> meeting, entries |-> FileEntries(v, meeting)]

\* recData.meetings || []
MeetingsOf(data) == IF data.hasMeetings THEN data.meetings ELSE <<>>

\* m => m.id === meetingIdNumber
Matches(m, meetingIdNumber) == StrictEquals(m.id, meetingIdNumber)

\* meetings.find in place of meetings.filter: the first match alone
Filtered_First(meetings, meetingId) ==
    LET meetingIdNumber == ToNumber(meetingId)
        Match(m) == Matches(m, meetingIdNumber)
        all == SelectSeq(meetings, Match)
    IN  IF all = <<>> THEN <<>> ELSE <<Head(all)>>

\* meetings.filter(m => m.id === meetingIdNumber)
Filtered(meetings, meetingId) ==
    LET meetingIdNumber == ToNumber(meetingId)
        Match(m) == Matches(m, meetingIdNumber)
    IN  SelectSeq(meetings, Match)

\* the document built from the filtered meetings
Page(v, meetingId, filtered) ==
    [subtitle |-> meetingId,
     noRecordings |-> Len(filtered) = 0,
     blocks |-> [i \in 1..Len(filtered) |-> Block(v, filtered[i])]]

\* The place where the code that follows recRes.json() throws, "none" if it
\* runs to its return: recData.meetings of null, m.id of a null meeting, a
\* field of a null file of a matched meeting.
ThrowSite(meetingId, data) ==
    IF data.nul THEN "recData"
    ELSE IF \E i \in 1..Len(MeetingsOf(data)) : MeetingsOf(data)[i].nul THEN "filter"
    ELSE IF \E i \in 1..Len(Filtered(MeetingsOf(data), meetingId)) :
                HasNullFile(FilesOf(Filtered(MeetingsOf(data), meetingId)[i]))
         THEN "render"
    ELSE "none"

\* return { statusCode: 200, headers: ..., body: html }
SuccessResponse(v, meetingId, data) ==
    HtmlResponse(Page(v, meetingId, Filtered(MeetingsOf(data), meetingId)))

\* catch (err) { ...; return { statusCode: 500, body: "Unexpected error ..." } }
CatchResponse == UnexpectedErrorResponse

(***************************************************************************)
(* The handler.                                                            *)
(***************************************************************************)
Falsy(x) == ~x.present \/ x.value = <<>>

\* the test of MEETING_ID left out
EnvMissing_WithoutMeetingId(e) ==
    \/ Falsy(e.ZOOM_ACCOUNT_ID)
    \/ Falsy(e.ZOOM_CLIENT_ID)
    \/ Falsy(e.ZOOM_CLIENT_SECRET)

\* !ZOOM_ACCOUNT_ID || !ZOOM_CLIENT_ID || !ZOOM_CLIENT_SECRET || !MEETING_ID
EnvMissing(e) ==
    \/ Falsy(e.ZOOM_ACCOUNT_ID)
    \/ Falsy(e.ZOOM_CLIENT_ID)
    \/ Falsy(e.ZOOM_CLIENT_SECRET)
    \/ Falsy(e.MEETING_ID)

Envs ==
    [ZOOM_ACCOUNT_ID : ZoomValues, ZOOM_CLIENT_ID : ZoomValues,
     ZOOM_CLIENT_SECRET : ZoomValues, MEETING_ID : MeetingIdValues]

ValidEnv ==
    [ZOOM_ACCOUNT_ID |-> Present(<<"x">>), ZOOM_CLIENT_ID |-> Present(<<"x">>),
     ZOOM_CLIENT_SECRET |-> Present(<<"x">>), MEETING_ID |-> Present(<<"2">>)]

InitWith(envs) ==
    /\ variant \in {"simple", "rich"}
    /\ env \in envs
    /\ pc = "start"
    /\ tokenCalls = 0
    /\ recCalls = 0
    /\ tokenRes = "none"
    /\ tokenData = "none"
    /\ recRes = "none"
    /\ recData = NoRecData
    /\ thrown = "none"
    /\ response = NoResponse

Init == InitWith(Envs)

\* return <response>
Return(r) ==
    /\ pc' = "done"
    /\ response' = r
    /\ thrown' = "none"

\* no try/catch: the error leaves the handler, which returns nothing
Throw_Unhandled(site) ==
    /\ pc' = "done"
    /\ response' = NoResponse
    /\ thrown' = site

\* an error thrown at `site` inside try: the catch block returns
Throw(site) ==
    /\ pc' = "done"
    /\ response' = CatchResponse
    /\ thrown' = site

\* the step runs on to the next await
Goto(next) ==
    /\ pc' = next
    /\ UNCHANGED <<response, thrown>>

EnvCheckFails ==
    /\ pc = "start"
    /\ EnvMissing(env)
    /\ Return(MissingEnvResponse)
    /\ UNCHANGED <<variant, env, tokenCalls, recCalls, tokenRes, tokenData,
                   recRes, recData>>

\* the env check passes and fetch(token endpoint) is issued
EnvCheckPasses ==
    /\ pc = "start"
    /\ ~EnvMissing(env)
    /\ tokenCalls' = tokenCalls + 1
    /\ Goto("tokenFetch")
    /\ UNCHANGED <<variant, env, recCalls, tokenRes, tokenData, recRes, recData>>

\* a catch around the token fetch alone that answers with the token message
TokenFetchRejects_TokenMessage ==
    /\ pc = "tokenFetch"
    /\ tokenRes' = "reject"
    /\ pc' = "done"
    /\ response' = TokenFailureResponse
    /\ thrown' = "tokenFetch"
    /\ UNCHANGED <<variant, env, tokenCalls, recCalls, tokenData, recRes, recData>>

\* await fetch(...) rejects: a network error
TokenFetchRejects ==
    /\ pc = "tokenFetch"
    /\ tokenRes' = "reject"
    /\ Throw("tokenFetch")
    /\ UNCHANGED <<variant, env, tokenCalls, recCalls, tokenData, recRes, recData>>

\* a non-2xx answer makes the handler fetch the token again
TokenFetchNotOk_Retries ==
    /\ pc = "tokenFetch"
    /\ tokenRes' = "notok"
    /\ tokenCalls' = tokenCalls + 1
    /\ Goto("tokenFetch")
    /\ UNCHANGED <<variant, env, recCalls, tokenData, recRes, recData>>

\* !tokenRes.ok: tokenRes.text() is awaited
TokenFetchNotOk ==
    /\ pc = "tokenFetch"
    /\ tokenRes' = "notok"
    /\ Goto("tokenText")
    /\ UNCHANGED <<variant, env, tokenCalls, recCalls, tokenData, recRes, recData>>

\* tokenRes.ok: tokenRes.json() is awaited
TokenFetchOk ==
    /\ pc = "tokenFetch"
    /\ tokenRes' = "ok"
    /\ Goto("tokenJson")
    /\ UNCHANGED <<variant, env, tokenCalls, recCalls, tokenData, recRes, recData>>

\* the return after the log line left out: the handler goes on
TokenTextResolves_FallsThrough ==
    /\ pc = "tokenText"
    /\ Goto("tokenJson")
    /\ UNCHANGED <<variant, env, tokenCalls, recCalls, tokenRes, tokenData,
                   recRes, recData>>

\* text() resolved: log, return the token failure
TokenTextResolves ==
    /\ pc = "tokenText"
    /\ Return(TokenFailureResponse)
    /\ UNCHANGED <<variant, env, tokenCalls, recCalls, tokenRes, tokenData,
                   recRes, recData>>

TokenTextRejects ==
    /\ pc = "tokenText"
    /\ Throw("tokenText")
    /\ UNCHANGED <<variant, env, tokenCalls, recCalls, tokenRes, tokenData,
                   recRes, recData>>

\* the body is not JSON
TokenJsonRejects ==
    /\ pc = "tokenJson"
    /\ Throw("tokenJson")
    /\ UNCHANGED <<variant, env, tokenCalls, recCalls, tokenRes, tokenData,
                   recRes, recData>>

\* the body is the JSON null: tokenData.access_token throws
TokenJsonNull ==
    /\ pc = "tokenJson"
    /\ tokenData' = "null"
    /\ Throw("tokenData")
    /\ UNCHANGED <<variant, env, tokenCalls, recCalls, tokenRes, recRes, recData>>

\* the body is a JSON object: fetch(recordings endpoint) is issued
TokenJsonResolves ==
    /\ pc = "tokenJson"
    /\ tokenData' = "object"
    /\ recCalls' = recCalls + 1
    /\ Goto("recFetch")
    /\ UNCHANGED <<variant, env, tokenCalls, tokenRes, recRes, recData>>

RecFetchRejects ==
    /\ pc = "recFetch"
    /\ recRes' = "reject"
    /\ Throw("recFetch")
    /\ UNCHANGED <<variant, env, tokenCalls, recCalls, tokenRes, tokenData, recData>>

\* the test of recRes.ok left out: the error body is parsed as the list
RecFetchNotOk_Unchecked ==
    /\ pc = "recFetch"
    /\ recRes' = "notok"
    /\ Goto("recJson")
    /\ UNCHANGED <<variant, env, tokenCalls, recCalls, tokenRes, tokenData, recData>>

\* !recRes.ok: recRes.text() is awaited
RecFetchNotOk ==
    /\ pc = "recFetch"
    /\ recRes' = "notok"
    /\ Goto("recText")
    /\ UNCHANGED <<variant, env, tokenCalls, recCalls, tokenRes, tokenData, recData>>

RecFetchOk ==
    /\ pc = "recFetch"
    /\ recRes' = "ok"
    /\ Goto("recJson")
    /\ UNCHANGED <<variant, env, tokenCalls, recCalls, tokenRes, tokenData, recData>>

RecTextResolves ==
    /\ pc = "recText"
    /\ Return(RecordingsFailureResponse)
    /\ UNCHANGED <<variant, env, tokenCalls, recCalls, tokenRes, tokenData,
                   recRes, recData>>

RecTextRejects ==
    /\ pc = "recText"
    /\ Throw("recText")
    /\ UNCHANGED <<variant, env, tokenCalls, recCalls, tokenRes, tokenData,
                   recRes, recData>>

RecJsonRejects ==
    /\ pc = "recJson"
    /\ Throw("recJson")
    /\ UNCHANGED <<variant, env, tokenCalls, recCalls, tokenRes, tokenData,
                   recRes, recData>>

\* recRes.json() resolves to data: filter, build the page and return, or
\* throw on the way
RecJsonResolves(data) ==
    /\ pc = "recJson"
    /\ recData' = data
    /\ IF ThrowSite(env.MEETING_ID.value, data) = "none"
         THEN Return(SuccessResponse(variant, env.MEETING_ID.value, data))
         ELSE Throw(ThrowSite(env.MEETING_ID.value, data))
    /\ UNCHANGED <<variant, env, tokenCalls, recCalls, tokenRes, tokenData, recRes>>

RecJsonFlow ==
    /\ pc = "recJson"
    /\ \E data \in FlowRecDatas : RecJsonResolves(data)

RecJsonFiles ==
    /\ pc = "recJson"
    /\ \E data \in FileRecDatas : RecJsonResolves(data)

Next ==
    \/ EnvCheckFails
    \/ EnvCheckPasses
    \/ TokenFetchRejects
    \/ TokenFetchNotOk
    \/ TokenFetchOk
    \/ TokenTextResolves
    \/ TokenTextRejects
    \/ TokenJsonRejects
    \/ TokenJsonNull
    \/ TokenJsonResolves
    \/ RecFetchRejects
    \/ RecFetchNotOk
    \/ RecFetchOk
    \/ RecTextResolves
    \/ RecTextRejects
    \/ RecJsonRejects
    \/ RecJsonFlow

Spec == Init /\ [][Next]_vars

\* The file processing: the configuration is complete, both calls succeed
\* and the response holds one matching meeting with any list of files.
InitFiles == InitWith({ValidEnv})

NextFiles ==
    \/ EnvCheckPasses
    \/ TokenFetchOk
    \/ TokenJsonResolves
    \/ RecFetchOk
    \/ RecJsonFiles

FileSpec == InitFiles /\ [][NextFiles]_vars

(***************************************************************************)
(* Properties.                                                             *)
(***************************************************************************)
Done == pc = "done"

Required == {"ZOOM_ACCOUNT_ID", "ZOOM_CLIENT_ID", "ZOOM_CLIENT_SECRET", "MEETING_ID"}

AbsentOrEmpty(k) == ~env[k].present \/ Len(env[k].value) = 0

Returned200 == Done /\ response.statusCode = 200

\* the configured id as a number, and whether a returned id equals it
TargetNumber == ToNumber(env.MEETING_ID.value)

IsTarget(id) == id.t = "num" /\ TargetNumber.t = "num" /\ id.n = TargetNumber.n

ReturnedMeetings == IF recData.hasMeetings THEN recData.meetings ELSE <<>>

Blocks == response.page.blocks

\* C1: whichever required variable is absent or empty, the handler returns
\* 500 with the missing-env-vars body and has issued no outbound call.
C1_MissingEnv ==
    (\E k \in Required : AbsentOrEmpty(k)) =>
        /\ tokenCalls = 0
        /\ recCalls = 0
        /\ pc \in {"start", "done"}
        /\ Done => response = MissingEnvResponse

C1_Witness ==
    /\ Done
    /\ AbsentOrEmpty("MEETING_ID")
    /\ \A k \in Required \ {"MEETING_ID"} : ~AbsentOrEmpty(k)
    /\ response = MissingEnvResponse

\* C2 as stated: every non-2xx token response ends in 500 "Failed to get Zoom
\* token." with no call to the recordings endpoint.
C2_Original ==
    Done /\ tokenRes = "notok" =>
        response = TokenFailureResponse /\ recCalls = 0

\* C2: after a non-2xx token response the recordings endpoint is never
\* called, and the handler returns 500 "Failed to get Zoom token." when the
\* error body was read, 500 "Unexpected error loading recordings." when
\* reading it failed.
C2_TokenNotOk ==
    tokenRes = "notok" =>
        /\ recCalls = 0
        /\ Done =>
            \/ thrown = "none" /\ response = TokenFailureResponse
            \/ thrown = "tokenText" /\ response = UnexpectedErrorResponse

C2_Witness ==
    Done /\ tokenRes = "notok" /\ thrown = "none" /\ recCalls = 0
        /\ response = TokenFailureResponse

\* C3 as stated: with a parsed 2xx token response, every non-2xx recordings
\* response ends in 500 "Failed to fetch recordings from Zoom.".
C3_Original ==
    Done /\ tokenRes = "ok" /\ tokenData = "object" /\ recRes = "notok" =>
        response = RecordingsFailureResponse

\* C3: with a parsed 2xx token response, a non-2xx recordings response ends
\* in 500 "Failed to fetch recordings from Zoom." when the error body was
\* read and in 500 "Unexpected error loading recordings." when reading it
\* failed; never in a 200 or any HTML.
C3_RecordingsNotOk ==
    Done /\ tokenRes = "ok" /\ tokenData = "object" /\ recRes = "notok" =>
        /\ response.statusCode = 500
        /\ response.page = NoPage
        /\ response.contentType = ""
        /\ \/ thrown = "none" /\ response = RecordingsFailureResponse
           \/ thrown = "recText" /\ response = UnexpectedErrorResponse

C3_Witness ==
    Done /\ tokenData = "object" /\ recRes = "notok" /\ thrown = "none"
        /\ response = RecordingsFailureResponse

\* the input on which the code after recRes.json() throws
C4_NullInParsedList ==
    \/ recData.nul
    \/ \E i \in 1..Len(ReturnedMeetings) : ReturnedMeetings[i].nul
    \/ \E i \in 1..Len(ReturnedMeetings) :
          /\ IsTarget(ReturnedMeetings[i].id)
          /\ ReturnedMeetings[i].recording_files.present
          /\ \E j \in 1..Len(ReturnedMeetings[i].recording_files.items) :
                ReturnedMeetings[i].recording_files.items[j].nul

\* C4: an error thrown after the configuration check (a fetch that rejects,
\* an error body or a JSON body that cannot be read, a field of a null
\* value) ends the invocation with the response 500 "Unexpected error
\* loading recordings.", whose body holds no HTML.
C4_ErrorsCaught ==
    /\ thrown # "none" => Done /\ response = UnexpectedErrorResponse
    /\ Done /\ (tokenRes = "reject" \/ recRes = "reject" \/ tokenData = "null") =>
          response = UnexpectedErrorResponse
    /\ Done /\ recRes = "ok" /\ thrown # "recJson" /\ C4_NullInParsedList =>
          response = UnexpectedErrorResponse
    /\ response.statusCode # 200 => response.page = NoPage

C4_Witness ==
    /\ Done
    /\ thrown = "render"
    /\ Len(ReturnedMeetings) = 2
    /\ response = UnexpectedErrorResponse

\* C5 as stated: a failure of the token endpoint, non-2xx or network error,
\* ends in the token message, and one of the recordings endpoint in the
\* recordings message.
C5_Original ==
    Done =>
        /\ tokenRes \in {"notok", "reject"} => response = TokenFailureResponse
        /\ recRes \in {"notok", "reject"} => response = RecordingsFailureResponse

\* C5: a non-2xx response whose error body was read ends in the message of
\* its endpoint; a network error (the fetch rejecting) on either call ends
\* in 500 "Unexpected error loading recordings.".
C5_FailureMessages ==
    Done =>
        /\ tokenRes = "notok" /\ thrown = "none" => response = TokenFailureResponse
        /\ recRes = "notok" /\ thrown = "none" => response = RecordingsFailureResponse
        /\ tokenRes = "reject" => response = UnexpectedErrorResponse
        /\ recRes = "reject" => response = UnexpectedErrorResponse

C5_Witness ==
    Done /\ tokenRes = "reject" /\ thrown = "tokenFetch"
        /\ response = UnexpectedErrorResponse

\* C6 as stated: a 200 page holds at most one meeting block, for the meeting
\* of the configured id.
C6_Original ==
    Returned200 =>
        /\ Len(Blocks) <= 1
        /\ \A j \in 1..Len(Blocks) : IsTarget(Blocks[j].meeting.id)

\* C6: a 200 page holds one meeting block for each returned entry whose id
\* equals the configured MEETING_ID, so several when several entries share
\* that id, and every block is for a meeting of that id.
C6_OneBlockPerMatch ==
    Returned200 =>
        /\ Len(Blocks) =
              Cardinality({i \in 1..Len(ReturnedMeetings) :
                              IsTarget(ReturnedMeetings[i].id)})
        /\ \A j \in 1..Len(Blocks) : IsTarget(Blocks[j].meeting.id)

C6_Witness ==
    /\ Returned200
    /\ Len(Blocks) = 2
    /\ Len(ReturnedMeetings) = 2
    /\ \A i \in 1..2 : IsTarget(ReturnedMeetings[i].id)

\* C7: on a 200 a returned meeting has a block iff its id is the number
\* parsed from MEETING_ID; the "No recordings found" message is there iff
\* no returned meeting matches, and then there is no block.
C7_ExactNumericMatch ==
    Returned200 =>
        /\ \A i \in 1..Len(ReturnedMeetings) :
              (\E j \in 1..Len(Blocks) : Blocks[j].meeting = ReturnedMeetings[i])
                  <=> IsTarget(ReturnedMeetings[i].id)
        /\ response.page.noRecordings
              <=> ~\E i \in 1..Len(ReturnedMeetings) : IsTarget(ReturnedMeetings[i].id)
        /\ response.page.noRecordings => Len(Blocks) = 0

C7_Witness ==
    /\ Returned200
    /\ Len(ReturnedMeetings) = 2
    /\ ReturnedMeetings[1].id.t = "str"
    /\ IsTarget(ReturnedMeetings[2].id)
    /\ Len(Blocks) = 1
    /\ ~response.page.noRecordings

\* the rank and the label the claim gives a file type
C8_TypeRank(type) == IF type = "MP4" THEN 1 ELSE IF type = "M4A" THEN 2 ELSE 3

C8_LabelRank(label) ==
    IF label = "VIDEO" THEN 1 ELSE IF label = "AUDIO" THEN 2 ELSE 3

C8_TypeLabel(type) ==
    IF type = "MP4" THEN "VIDEO" ELSE IF type = "M4A" THEN "AUDIO" ELSE type

\* the files of rank r that the richer variant shows, as entries, in the
\* order of the response
RECURSIVE C8_Expected(_, _)
C8_Expected(files, r) ==
    IF files = <<>> THEN <<>>
    ELSE (IF /\ Head(files).file_type \notin {"SUMMARY", "CHAT"}
             /\ Head(files).play_url # ""
             /\ C8_TypeRank(Head(files).file_type) = r
          THEN <<[href |-> Head(files).play_url,
                  label |-> C8_TypeLabel(Head(files).file_type)]>>
          ELSE <<>>) \o C8_Expected(Tail(files), r)

RECURSIVE C8_OfRank(_, _)
C8_OfRank(entries, r) ==
    IF entries = <<>> THEN <<>>
    ELSE (IF C8_LabelRank(Head(entries).label) = r THEN <<Head(entries)>> ELSE <<>>)
            \o C8_OfRank(Tail(entries), r)

BlockFiles(j) ==
    IF Blocks[j].meeting.recording_files.present
    THEN Blocks[j].meeting.recording_files.items ELSE <<>>

\* C8: in the richer variant no SUMMARY or CHAT file has an entry, the
\* entries run MP4, then M4A, then the other types, files of one rank in
\* the order of the response, labelled VIDEO, AUDIO or with the raw type.
C8_FilterSortLabel ==
    Returned200 /\ variant = "rich" =>
        \A j \in 1..Len(Blocks) :
            LET es == Blocks[j].entries
            IN  /\ \A i \in 1..Len(es) : es[i].label \notin {"SUMMARY", "CHAT"}
                /\ \A i, k \in 1..Len(es) :
                      i < k => C8_LabelRank(es[i].label) <= C8_LabelRank(es[k].label)
                /\ \A r \in 1..3 : C8_OfRank(es, r) = C8_Expected(BlockFiles(j), r)

C8_Witness ==
    /\ Returned200
    /\ variant = "rich"
    /\ Len(Blocks) = 1
    /\ BlockFiles(1) = <<File("CHAT", "u1"), File("M4A", "u1"),
                          File("SUMMARY", "u2"), File("MP4", "u2")>>
    /\ Blocks[1].entries =
          <<[href |-> "u2", label |-> "VIDEO"], [href |-> "u1", label |-> "AUDIO"]>>

\* the files the claim says have an entry
C9_Qualifies(file) ==
    /\ file.play_url # ""
    /\ variant = "rich" => file.file_type \notin {"SUMMARY", "CHAT"}

\* C9: in both variants a file without a playable URL has no entry, and
\* every file with one (in the richer variant, other than SUMMARY and CHAT)
\* has exactly one entry that links to its URL.
C9_EntriesPerFile ==
    Returned200 =>
        \A j \in 1..Len(Blocks) :
            LET es == Blocks[j].entries
                fs == BlockFiles(j)
            IN  /\ \A i \in 1..Len(es) : es[i].href # ""
                /\ Len(es) = Cardinality({i \in 1..Len(fs) : C9_Qualifies(fs[i])})
                /\ \A u \in Urls :
                      Cardinality({i \in 1..Len(es) : es[i].href = u})
                          = Cardinality({i \in 1..Len(fs) :
                                            C9_Qualifies(fs[i]) /\ fs[i].play_url = u})

C9_Witness ==
    /\ Returned200
    /\ variant = "simple"
    /\ Len(Blocks) = 1
    /\ BlockFiles(1) = <<File("CHAT", "u1"), File("MP4", ""), File("M4A", "u2")>>
    /\ Len(Blocks[1].entries) = 2

\* C10: each endpoint is called at most once, the recordings endpoint only
\* after a 2xx token response whose body was parsed, and a 200 is returned
\* only after both calls answered 2xx.
C10_SequentialNoRetry ==
    /\ tokenCalls <= 1
    /\ recCalls <= 1
    /\ recCalls = 1 => tokenCalls = 1 /\ tokenRes = "ok" /\ tokenData = "object"
    /\ Done /\ response.statusCode = 200 =>
          tokenCalls = 1 /\ recCalls = 1 /\ tokenRes = "ok" /\ recRes = "ok"

C10_Witness ==
    Returned200 /\ tokenCalls = 1 /\ recCalls = 1 /\ thrown = "none"

====
